---- MODULE Spec2Model ----
(***************************************************************************)
(* A model of @biconomy/passkey: toWebAuthnKey (registration / login       *)
(* against the passkey server and the platform authenticator) and          *)
(* toPasskeyValidator (the module descriptor, its signUserOpHash callback  *)
(* and its stub signature).                                                *)
(*                                                                         *)
(* Strings are sequences of character codes, byte arrays are sequences of  *)
(* numbers 0..255, so that base64, hex and DER conversions are computed.   *)
(* JavaScript values that may be undefined are tagged records.             *)
(***************************************************************************)
EXTENDS Integers, Sequences, FiniteSets, TLC

VARIABLES
    pc,        \* position of the toWebAuthnKey call
    params,    \* its parameters {mode, webAuthnKey}
    locals,    \* its locals: the options, the credential, the verify result, pubKey, ...
    outcome,   \* what the call returned or threw
    trace,     \* every external call the toWebAuthnKey call made, and every response it got
    validator, \* the {webAuthnKey, account} toPasskeyValidator was given
    module,    \* the Module toPasskeyValidator returned
    sign       \* the current (or last) call of a module callback

vars == <<pc, params, locals, outcome, trace, validator, module, sign>>

(***************************************************************************)
(* Bounds of the model.                                                    *)
(***************************************************************************)
\* the largest chain id the account client is given
MaxChainId == 3
\* the curve order of the model: it stands for the order n of NIST P-256,
\* scaled to one byte so that every s in 1..n-1 is enumerated
CurveOrder == 131
\* the largest public-key coordinate / signature r that is enumerated
MaxCoord == 2

(***************************************************************************)
(* JavaScript values.                                                      *)
(***************************************************************************)
Undefined == [t |-> "undefined"]
Bool(b) == [t |-> "bool", b |-> b]
Str(s) == [t |-> "str", s |-> s]

\* !v of JavaScript, for the values above
Falsy(v) == v = Undefined \/ v = Bool(FALSE) \/ v = Str(<<>>)

(***************************************************************************)
(* Text and byte helpers.                                                  *)
(***************************************************************************)
\* String.prototype.indexOf: the first 0-based offset of needle in hay, or -1
IndexOf(hay, needle) ==
    LET hits == {i \in 0..(Len(hay) - Len(needle)) :
                    SubSeq(hay, i + 1, i + Len(needle)) = needle}
    IN IF hits = {} THEN -1 ELSE CHOOSE i \in hits : \A j \in hits : i <= j

\* String.prototype.startsWith
StartsWith(s, prefix) ==
    Len(s) >= Len(prefix) /\ SubSeq(s, 1, Len(prefix)) = prefix

RECURSIVE BytesToInt(_)
\* big-endian bytes to an unsigned integer
BytesToInt(bytes) ==
    IF bytes = <<>> THEN 0
    ELSE 256 * BytesToInt(SubSeq(bytes, 1, Len(bytes) - 1)) + bytes[Len(bytes)]

\* the standard base64 alphabet: A-Z a-z 0-9 + /
B64_STD ==
    <<65, 66, 67, 68, 69, 70, 71, 72, 73, 74, 75, 76, 77, 78, 79, 80, 81, 82,
      83, 84, 85, 86, 87, 88, 89, 90, 97, 98, 99, 100, 101, 102, 103, 104, 105,
      106, 107, 108, 109, 110, 111, 112, 113, 114, 115, 116, 117, 118, 119,
      120, 121, 122, 48, 49, 50, 51, 52, 53, 54, 55, 56, 57, 43, 47>>

\* the 6-bit value of a standard base64 character (A-Z, a-z, 0-9, +, /),
\* -1 for any other character
B64Value(c) ==
    IF c >= 65 /\ c <= 90 THEN c - 65
    ELSE IF c >= 97 /\ c <= 122 THEN c - 71
    ELSE IF c >= 48 /\ c <= 57 THEN c + 4
    ELSE IF c = 43 THEN 62
    ELSE IF c = 47 THEN 63
    ELSE -1

\* the error value of a failed decoding (no byte array holds -1)
InvalidCharacterError == <<-1>>

RECURSIVE DecodeSextets(_)
\* 6-bit values to bytes: 4 -> 3 bytes, 3 -> 2 bytes, 2 -> 1 byte
DecodeSextets(v) ==
    IF Len(v) = 0 THEN <<>>
    ELSE IF Len(v) >= 4 THEN
        LET n == v[1] * 262144 + v[2] * 4096 + v[3] * 64 + v[4]
        IN <<n \div 65536, (n \div 256) % 256, n % 256>>
              \o DecodeSextets(SubSeq(v, 5, Len(v)))
    ELSE IF Len(v) = 3 THEN
        LET n == v[1] * 4096 + v[2] * 64 + v[3]
        IN <<n \div 1024, (n \div 4) % 256>>
    ELSE IF Len(v) = 2 THEN <<(v[1] * 64 + v[2]) \div 16>>
    ELSE <<>>

\* trailing '=' padding removed (at most two, of a padded length)
StripPadding(s) ==
    IF Len(s) % 4 = 0 /\ Len(s) >= 2 /\ s[Len(s)] = 61
    THEN IF s[Len(s) - 1] = 61 THEN SubSeq(s, 1, Len(s) - 2)
                               ELSE SubSeq(s, 1, Len(s) - 1)
    ELSE s

\* window.atob: standard alphabet only; a '-' or '_' (base64url), any other
\* character, or a length of 4k+1 throws InvalidCharacterError
atob(s) ==
    LET body == StripPadding(s)
        vals == [i \in 1..Len(body) |-> B64Value(body[i])]
    IN IF Len(body) % 4 = 1 \/ \E i \in 1..Len(body) : vals[i] = -1
       THEN InvalidCharacterError
       ELSE DecodeSextets(vals)

\* utils.b64ToBytes: base64url or base64 text to bytes
\* ('-' -> '+', '_' -> '/', padded with '=', then atob)
b64ToBytes(base64) ==
    LET std == [i \in 1..Len(base64) |->
                   IF base64[i] = 45 THEN 43
                   ELSE IF base64[i] = 95 THEN 47 ELSE base64[i]]
    IN atob(std)

\* the base64url character of a 6-bit value ('-' and '_' for 62 and 63)
B64UrlChar(v) == IF v = 62 THEN 45 ELSE IF v = 63 THEN 95 ELSE B64_STD[v + 1]

RECURSIVE EncodeBytes(_)
\* bytes to 6-bit values: 3 bytes -> 4, 2 bytes -> 3, 1 byte -> 2
EncodeBytes(b) ==
    IF Len(b) = 0 THEN <<>>
    ELSE IF Len(b) >= 3 THEN
        LET n == b[1] * 65536 + b[2] * 256 + b[3]
        IN <<n \div 262144, (n \div 4096) % 64, (n \div 64) % 64, n % 64>>
              \o EncodeBytes(SubSeq(b, 4, Len(b)))
    ELSE IF Len(b) = 2 THEN
        LET n == (b[1] * 256 + b[2]) * 4
        IN <<n \div 4096, (n \div 64) % 64, n % 64>>
    ELSE <<b[1] \div 4, (b[1] % 4) * 16>>

\* utils.base64FromUint8Array(bytes, true) and the authenticator's own
\* encoding of its response fields: unpadded base64url
base64FromUint8Array(bytes) ==
    LET v == EncodeBytes(bytes) IN [i \in 1..Len(v) |-> B64UrlChar(v[i])]

\* one lower-case hex digit
HexDigit(n) == IF n < 10 THEN 48 + n ELSE 87 + n

\* the value of a hex digit, -1 for any other character
HexValue(c) ==
    IF c >= 48 /\ c <= 57 THEN c - 48
    ELSE IF c >= 97 /\ c <= 102 THEN c - 87
    ELSE IF c >= 65 /\ c <= 70 THEN c - 55
    ELSE -1

\* the "0x" every Hex string starts with
HEX_PREFIX == <<48, 120>>

\* utils.uint8ArrayToHexString: "0x" and two hex digits per byte
\* (a failed decoding stays a failure)
uint8ArrayToHexString(array) ==
    IF array = InvalidCharacterError THEN InvalidCharacterError
    ELSE HEX_PREFIX \o
         [i \in 1..(2 * Len(array)) |->
             IF i % 2 = 1 THEN HexDigit(array[(i + 1) \div 2] \div 16)
                          ELSE HexDigit(array[i \div 2] % 16)]

\* viem hexToBytes: the bytes a "0x..." string stands for
hexToBytes(hex) ==
    LET digits == SubSeq(hex, 3, Len(hex))
    IN [i \in 1..(Len(digits) \div 2) |->
           16 * HexValue(digits[2 * i - 1]) + HexValue(digits[2 * i])]

\* viem keccak256 of a Hex string: an ideal (injective) hash of its bytes
keccak256(hex) == [keccak256 |-> hexToBytes(hex)]

(***************************************************************************)
(* toWebAuthnKey.ts                                                        *)
(***************************************************************************)
\* enum WebAuthnMode; NoMode is a call that leaves mode out
WebAuthnMode_Register == "register"
WebAuthnMode_Login == "login"
NoMode == "undefined"

\* the errors toWebAuthnKey throws itself (the messages of the code; the
\* names are the spec's)
LoginNotVerified == "Login not verified"
RegistrationNotVerified == "Registration not verified"
MissingPublicKey == "No public key returned from registration credential"
MissingAuthenticatorId == "No authenticator id returned from registration credential"

\* the errors its collaborators throw: fetch, Response.json, a property read
\* of undefined, the platform ceremony, atob, crypto.subtle.importKey
NetworkError == "TypeError: fetch failed"
JsonSyntaxError == "SyntaxError: body is not JSON"
UndefinedPropertyError == "TypeError: cannot read properties of undefined"
CeremonyError == "WebAuthnError"
AtobError == "InvalidCharacterError"
InvalidPublicKeyEncoding == "DataError: invalid SPKI"

\* bytes per curve coordinate in the model (32 in the program: subarray(1, 33))
CoordBytes == 1

RECURSIVE IntToBytes(_, _)
\* an unsigned integer as n big-endian bytes
IntToBytes(v, n) ==
    IF n = 0 THEN <<>> ELSE IntToBytes(v \div 256, n - 1) \o <<v % 256>>

\* the DER prefix of a P-256 SubjectPublicKeyInfo, before the point
SPKI_HEADER ==
    <<48, 89, 48, 19, 6, 7, 42, 134, 72, 206, 61, 2, 1, 6, 8, 42, 134, 72,
      206, 61, 3, 1, 7, 3, 66, 0>>

\* the SPKI encoding of the point (x, y): header, 0x04, X, Y
Spki(x, y) ==
    SPKI_HEADER \o <<4>> \o IntToBytes(x, CoordBytes) \o IntToBytes(y, CoordBytes)

\* Buffer.from(pubKey, "base64") (line 202): either alphabet, never throws
BufferFromBase64(text) ==
    IF b64ToBytes(text) = InvalidCharacterError THEN <<>> ELSE b64ToBytes(text)

\* crypto.subtle.importKey("spki", ...) accepts the bytes
ImportKeyAccepts(spkiDer) ==
    /\ Len(spkiDer) = Len(SPKI_HEADER) + 1 + 2 * CoordBytes
    /\ SubSeq(spkiDer, 1, Len(SPKI_HEADER)) = SPKI_HEADER
    /\ spkiDer[Len(SPKI_HEADER) + 1] = 4

\* crypto.subtle.exportKey("raw", key): 0x04 || X || Y
ExportRawKey(spkiDer) == SubSeq(spkiDer, Len(SPKI_HEADER) + 1, Len(spkiDer))

\* the credential ids an authenticator is made to return:
\* "AQIDBA", "_w", "A" (not base64), "" (empty)
CredentialIds ==
    {<<65, 81, 73, 68, 66, 65>>, <<95, 119>>, <<65>>, <<>>}

\* the public keys a credential or the server is made to carry: none, the
\* empty string, one that is no SPKI ("AQ"), and the SPKI of each point
PublicKeys ==
    {Undefined, Str(<<>>), Str(<<65, 81>>)}
    \cup {Str(base64FromUint8Array(Spki(x, y))) : x \in 1..MaxCoord, y \in 1..MaxCoord}

\* what a passkey-server request can come back with
NetworkFailure == [kind |-> "networkError"]
Http(ok, body) == [kind |-> "http", ok |-> ok, body |-> body]
NotJson == [t |-> "notJson"]

\* /register/options and /login/options bodies: the request options the body
\* carries (body.options for Register, the body itself for Login), undefined
\* in a body of another shape
OptionsBodies ==
    {NotJson,
     [t |-> "json", requestOptions |-> [t |-> "object"]],
     [t |-> "json", requestOptions |-> Undefined]}

\* /register/verify bodies: {verified}
RegisterVerifyBodies ==
    {NotJson} \cup
    {[t |-> "json", verified |-> v] : v \in {Undefined, Bool(FALSE), Bool(TRUE)}}

\* /login/verify bodies: {verification: {verified}, pubkey}
LoginVerifyBodies ==
    {NotJson, [t |-> "json", verification |-> Undefined, pubkey |-> Undefined]}
    \cup {[t |-> "json", verification |-> [verified |-> v], pubkey |-> k] :
             v \in {Undefined, Bool(FALSE), Bool(TRUE)}, k \in PublicKeys}

Responses(bodies) ==
    {NetworkFailure} \cup {Http(ok, b) : ok \in BOOLEAN, b \in bodies}

\* how a response failed, if it did: the three failures of a request
ResponseClass(resp, wellFormed) ==
    IF resp.kind = "networkError" THEN "networkError"
    ELSE IF ~resp.ok THEN "non2xx"
    ELSE IF ~wellFormed THEN "unexpectedPayload"
    ELSE "ok"

\* the mode in force: mode = WebAuthnMode.Register by default (line 92)
Mode(p) == IF p.mode = NoMode THEN WebAuthnMode_Register ELSE p.mode

\* the endpoints of a mode
OptionsUrl(m) == IF m = WebAuthnMode_Login THEN "/login/options" ELSE "/register/options"
VerifyUrl(m) == IF m = WebAuthnMode_Login THEN "/login/verify" ELSE "/register/verify"
Ceremony(m) == IF m = WebAuthnMode_Login THEN "startAuthentication" ELSE "startRegistration"

NoLocals ==
    [options |-> Undefined, cred |-> Undefined, verifyResult |-> Undefined,
     pubKey |-> Undefined, authenticatorId |-> Undefined,
     authenticatorIdHash |-> Undefined]

NoOutcome == [value |-> Undefined, error |-> ""]

Called(op, arg) == [op |-> op, arg |-> arg]

\* the call ends by throwing
Throw(error) ==
    /\ pc' = "thrown"
    /\ outcome' = [value |-> Undefined, error |-> error]

\* a short circuit that is taken in the Login mode only
SuppliedKey_loginOnly(p) == ~Falsy(p.webAuthnKey) /\ p.mode = WebAuthnMode_Login

\* if (webAuthnKey) (line 96)
SuppliedKey(p) == ~Falsy(p.webAuthnKey)

\* the hash of the text of the id, not of the bytes it decodes to
AuthenticatorIdHash_ofText(authenticatorId) ==
    keccak256(uint8ArrayToHexString(authenticatorId))

\* lines 199-201
AuthenticatorIdHash(authenticatorId) ==
    keccak256(uint8ArrayToHexString(b64ToBytes(authenticatorId)))

\* a check that rejects a missing verified only (=== undefined)
RegistrationRejected_missingOnly(body) == body.verified = Undefined

\* !registerVerifyResult.verified (line 184)
RegistrationRejected(body) == Falsy(body.verified)

\* a check of the public key in place of the verification
LoginRejected_pubkeyOnly(body) == Falsy(body.pubkey)

\* !loginVerifyResult.verification.verified (line 138)
LoginRejected(body) == Falsy(body.verification.verified)

\* the keys a caller can hand in: hash and id agree, or not
WebAuthnKeys ==
    {[pubX |-> x, pubY |-> 1, authenticatorId |-> id, authenticatorIdHash |-> h] :
        x \in 1..MaxCoord,
        id \in {<<65, 81, 73, 68, 66, 65>>, <<95, 119>>},
        h \in {AuthenticatorIdHash(<<65, 81, 73, 68, 66, 65>>),
               AuthenticatorIdHash(<<95, 119>>)}}

NoModule == [t |-> "undefined"]

\* toWebAuthnKey is called: the short circuit, or the options request is sent
toWebAuthnKey(p) ==
    /\ pc = "idle"
    /\ module = NoModule
    /\ params' = p
    /\ IF SuppliedKey(p)
       THEN /\ pc' = "returned"
            /\ outcome' = [value |-> p.webAuthnKey, error |-> ""]
            /\ UNCHANGED trace
       ELSE /\ pc' = "awaitOptions"
            /\ trace' = Append(trace, Called("fetch", OptionsUrl(Mode(p))))
            /\ UNCHANGED outcome
    /\ UNCHANGED <<locals, validator, module, sign>>

\* the options response arrives: json(), then the ceremony is started
optionsResponse(resp) ==
    /\ pc = "awaitOptions"
    /\ LET wellFormed == resp.kind = "http" /\ resp.body # NotJson
                            /\ resp.body.requestOptions # Undefined
           got == Append(trace, Called("response", ResponseClass(resp, wellFormed)))
       IN IF resp.kind = "networkError"
          THEN Throw(NetworkError) /\ trace' = got /\ UNCHANGED locals
          ELSE IF resp.body = NotJson
          THEN Throw(JsonSyntaxError) /\ trace' = got /\ UNCHANGED locals
          ELSE /\ locals' = [locals EXCEPT !.options = resp.body.requestOptions]
               /\ trace' = Append(got, Called(Ceremony(Mode(params)), ""))
               /\ pc' = "awaitCeremony"
               /\ UNCHANGED outcome
    /\ UNCHANGED <<params, validator, module, sign>>

\* what the platform ceremony can end with: it throws on options that are
\* none and whenever the user or the device refuses
CeremonyOutcomes(m, options) ==
    {Undefined} \cup
    IF options = Undefined THEN {}
    ELSE IF m = WebAuthnMode_Login
    THEN {[id |-> Str(id), response |-> [publicKey |-> Undefined]] : id \in CredentialIds}
    ELSE {[id |-> Str(id), response |-> [publicKey |-> k]] :
             id \in CredentialIds, k \in PublicKeys}

\* the ceremony ends: authenticatorId = cred.id, then the verify request is sent
ceremonyResult(cred) ==
    /\ pc = "awaitCeremony"
    /\ IF cred = Undefined
       THEN Throw(CeremonyError) /\ UNCHANGED <<locals, trace>>
       ELSE /\ locals' = [locals EXCEPT !.cred = cred, !.authenticatorId = cred.id]
            /\ trace' = Append(trace, Called("fetch", VerifyUrl(Mode(params))))
            /\ pc' = "awaitVerify"
            /\ UNCHANGED outcome
    /\ UNCHANGED <<params, validator, module, sign>>

\* pubKey after a verify body that parsed (lines 138-142, 184-189)
VerifiedPubKey(m, body, cred) ==
    IF m = WebAuthnMode_Login THEN body.pubkey ELSE cred.response.publicKey

\* the error the verify body makes the call throw, "" if none
VerifyError(m, body) ==
    IF m = WebAuthnMode_Login
    THEN IF body.verification = Undefined THEN UndefinedPropertyError
         ELSE IF LoginRejected(body) THEN LoginNotVerified ELSE ""
    ELSE IF RegistrationRejected(body) THEN RegistrationNotVerified ELSE ""

\* the two checks made in the opposite order: the authenticator id first
MissingError_idFirst(pubKey, authenticatorId) ==
    IF Falsy(authenticatorId) THEN MissingAuthenticatorId
    ELSE IF Falsy(pubKey) THEN MissingPublicKey
    ELSE ""

\* if (!pubKey) throw ...; if (!authenticatorId) throw ... (lines 192-197):
\* the error thrown, "" if none
MissingError(pubKey, authenticatorId) ==
    IF Falsy(pubKey) THEN MissingPublicKey
    ELSE IF Falsy(authenticatorId) THEN MissingAuthenticatorId
    ELSE ""

\* the verify response arrives: json(), the verified check, the two missing
\* checks, the hash of the authenticator id, and importKey is started
verifyResponse(resp) ==
    /\ pc = "awaitVerify"
    /\ LET m == Mode(params)
           parsed == resp.kind = "http" /\ resp.body # NotJson
           wellFormed ==
               /\ parsed
               /\ IF m = WebAuthnMode_Login
                  THEN resp.body.verification # Undefined
                  ELSE resp.body.verified # Undefined
           got == Append(trace, Called("response", ResponseClass(resp, wellFormed)))
           pubKey == VerifiedPubKey(m, resp.body, locals.cred)
           id == locals.authenticatorId
       IN IF resp.kind = "networkError"
          THEN Throw(NetworkError) /\ trace' = got /\ UNCHANGED locals
          ELSE IF resp.body = NotJson
          THEN Throw(JsonSyntaxError) /\ trace' = got /\ UNCHANGED locals
          ELSE IF VerifyError(m, resp.body) # ""
          THEN /\ Throw(VerifyError(m, resp.body)) /\ trace' = got
               /\ locals' = [locals EXCEPT !.verifyResult = resp.body]
          ELSE IF MissingError(pubKey, id) # ""
          THEN /\ Throw(MissingError(pubKey, id)) /\ trace' = got
               /\ locals' = [locals EXCEPT !.verifyResult = resp.body,
                                           !.pubKey = pubKey]
          ELSE IF b64ToBytes(id.s) = InvalidCharacterError
          THEN /\ Throw(AtobError) /\ trace' = got
               /\ locals' = [locals EXCEPT !.verifyResult = resp.body,
                                           !.pubKey = pubKey]
          ELSE /\ locals' = [locals EXCEPT !.verifyResult = resp.body,
                                !.pubKey = pubKey,
                                !.authenticatorIdHash = AuthenticatorIdHash(id.s)]
               /\ trace' = got \o <<Called("keccak256", ""), Called("importKey", "")>>
               /\ pc' = "awaitImportKey"
               /\ UNCHANGED outcome
    /\ UNCHANGED <<params, validator, module, sign>>

\* the WebAuthnKey of lines 219-227, from the raw key 0x04 || X || Y
DerivedKey(rawKey, authenticatorId, authenticatorIdHash) ==
    [pubX |-> BytesToInt(SubSeq(rawKey, 2, 1 + CoordBytes)),
     pubY |-> BytesToInt(SubSeq(rawKey, 2 + CoordBytes, Len(rawKey))),
     authenticatorId |-> authenticatorId,
     authenticatorIdHash |-> authenticatorIdHash]

\* importKey ends: it throws, or the key is exported raw, split and returned
importKeyResult ==
    /\ pc = "awaitImportKey"
    /\ LET spkiDer == BufferFromBase64(locals.pubKey.s)
       IN IF ~ImportKeyAccepts(spkiDer)
          THEN Throw(InvalidPublicKeyEncoding) /\ UNCHANGED trace
          ELSE /\ pc' = "returned"
               /\ trace' = Append(trace, Called("exportKey", ""))
               /\ outcome' =
                    [value |-> DerivedKey(ExportRawKey(spkiDer),
                                          locals.authenticatorId.s,
                                          locals.authenticatorIdHash),
                     error |-> ""]
    /\ UNCHANGED <<params, locals, validator, module, sign>>

(***************************************************************************)
(* utils.ts, as toPasskeyValidator.ts uses it                              *)
(***************************************************************************)
\* the errors of the signing path (the names are the spec's)
ChainIdUnavailable == "Chain ID is required but not found in account client"
MalformedSignature == "MalformedSignature"
UnexpectedClientDataShape == "UnexpectedClientDataShape"

\* the text "type":" and the text "challenge":"
TYPE_KEY == <<34, 116, 121, 112, 101, 34, 58, 34>>
CHALLENGE_KEY == <<34, 99, 104, 97, 108, 108, 101, 110, 103, 101, 34, 58, 34>>

\* utils.findQuoteIndices: the offset at which the value of "type" begins;
\* -1 when "type":" or "challenge":" is not in the text
findQuoteIndices(input) ==
    LET t == IndexOf(input, TYPE_KEY)
        c == IndexOf(input, CHALLENGE_KEY)
    IN [beforeType |-> IF t = -1 \/ c = -1 THEN -1 ELSE t + Len(TYPE_KEY)]

\* a DER INTEGER: tag 0x02, length, minimal big-endian bytes with a leading
\* 0x00 when the top bit is set
DerInteger(v) ==
    LET b == IF v < 128 THEN <<v>> ELSE IF v < 256 THEN <<0, v>>
             ELSE <<0>> \o IntToBytes(v, 2)
    IN <<2, Len(b)>> \o b

\* the DER signature of (r, s): SEQUENCE { INTEGER r, INTEGER s }
DerSignature(r, s) ==
    LET body == DerInteger(r) \o DerInteger(s) IN <<48, Len(body)>> \o body

\* the well-formedness of a DER signature: the tags and the lengths agree
DerWellFormed(der) ==
    /\ Len(der) >= 8
    /\ der[1] = 48 /\ der[2] = Len(der) - 2
    /\ der[3] = 2 /\ der[4] >= 1 /\ Len(der) >= 6 + der[4] + 1
    /\ der[5 + der[4]] = 2
    /\ der[6 + der[4]] >= 1
    /\ Len(der) = 6 + der[4] + der[6 + der[4]]

\* utils.parseAndNormalizeSig: (r, s) of a DER signature given as Hex, s
\* replaced by n - s when s > n / 2; ok = FALSE for a malformed signature
parseAndNormalizeSig(derSig) ==
    LET der == hexToBytes(derSig)
    IN IF derSig = InvalidCharacterError \/ ~DerWellFormed(der)
       THEN [ok |-> FALSE, r |-> 0, s |-> 0]
       ELSE LET r == BytesToInt(SubSeq(der, 5, 4 + der[4]))
                s == BytesToInt(SubSeq(der, 7 + der[4], Len(der)))
            IN [ok |-> TRUE, r |-> r,
                s |-> IF s > CurveOrder \div 2 THEN CurveOrder - s ELSE s]

\* the fixed allow-list of chain ids with the P-256 precompile (RIP-7212)
RIP7212_CHAINS == {2, 3}

\* utils.isRIP7212SupportedNetwork
isRIP7212SupportedNetwork(chainId) == chainId \in RIP7212_CHAINS

\* utils.hexStringToUint8Array: the bytes of hex digits without "0x"
hexStringToUint8Array(hexString) == hexToBytes(HEX_PREFIX \o hexString)

(***************************************************************************)
(* toPasskeyValidator.ts                                                   *)
(***************************************************************************)
\* the accounts toPasskeyValidator is given: no client, a client with no
\* chain, a client on a chain
Accounts ==
    {[signer |-> "signer", address |-> "accountAddress", client |-> c] :
        c \in {Undefined, [chain |-> Undefined]}
               \cup {[chain |-> [id |-> id]] : id \in 1..MaxChainId}}

\* a check of the client only (!account.client)
NoChain_clientOnly(acc) == acc.client = Undefined

\* !account.client?.chain (line 183)
NoChain(acc) ==
    IF acc.client = Undefined THEN TRUE ELSE Falsy(acc.client.chain)

\* the user operation hashes that are signed: "0x0102", "0xff"
UserOpHashes ==
    {uint8ArrayToHexString(<<1, 2>>), uint8ArrayToHexString(<<255>>)}

\* encodeAbiParameters of ((uint256 x, uint256 y), bytes32): three static
\* words, in this order
EncodeInitData(key) ==
    <<[uint256 |-> key.pubX], [uint256 |-> key.pubY],
      [bytes32 |-> key.authenticatorIdHash]>>

\* the top-level initData (lines 192-214)
InitData(key) == EncodeInitData(key)

\* a nested payload with x and y in the other order
ModuleInitData_swapped(key) ==
    <<[uint256 |-> key.pubY], [uint256 |-> key.pubX],
      [bytes32 |-> key.authenticatorIdHash]>>

\* the initData of moduleInitData (lines 216-238)
ModuleInitData(key) == EncodeInitData(key)

\* constants.PASSKEY_VALIDATOR_ADDRESS (its value is not in these files)
PASSKEY_VALIDATOR_ADDRESS == "PASSKEY_VALIDATOR_ADDRESS"

\* toPasskeyValidator: the module descriptor handed to toModule
toPasskeyValidator(webAuthnKey, acc) ==
    /\ pc = "idle"
    /\ module = NoModule
    /\ validator' = [webAuthnKey |-> webAuthnKey, account |-> acc]
    /\ module' =
         [t |-> "module",
          signer |-> acc.signer,
          address |-> PASSKEY_VALIDATOR_ADDRESS,
          accountAddress |-> acc.address,
          initData |-> InitData(webAuthnKey),
          moduleInitData |-> [initData |-> ModuleInitData(webAuthnKey),
                              address |-> PASSKEY_VALIDATOR_ADDRESS,
                              type |-> "validator"],
          deInitData |-> HEX_PREFIX]
    /\ UNCHANGED <<pc, params, locals, outcome, trace, sign>>

NoSign ==
    [op |-> "", pc |-> "idle", userOpHash |-> <<>>, chain |-> Undefined,
     ceremonies |-> <<>>, cred |-> Undefined, result |-> Undefined, error |-> ""]

\* lines 36-57: the challenge of a message given as a string
Challenge(message) ==
    LET formattedMessage ==
            IF StartsWith(message, HEX_PREFIX)
            THEN SubSeq(message, 3, Len(message)) ELSE message
    IN base64FromUint8Array(hexStringToUint8Array(formattedMessage))

\* lines 60-64: the assertion options given to startAuthentication
AssertionOptions(message, allowCredentials) ==
    [challenge |-> Challenge(message),
     allowCredentials |-> allowCredentials,
     userVerification |-> "required"]

\* no restriction: any credential of the relying party is allowed
AllowCredentials_unrestricted(key) == <<>>

\* line 189: the credentials signUserOpHash allows
AllowCredentials(key) == <<[id |-> key.authenticatorId, type |-> "public-key"]>>

\* a callback may be called: a module exists and no call is in flight
CanCall ==
    /\ module # NoModule
    /\ sign.pc \in {"idle", "done"}

\* signUserOpHash is called: the chain check, then signMessageUsingWebAuthn
\* up to its await of startAuthentication
signUserOpHash(userOpHash) ==
    /\ CanCall
    /\ IF NoChain(validator.account)
       THEN sign' = [NoSign EXCEPT !.op = "signUserOpHash", !.pc = "done",
                                   !.userOpHash = userOpHash,
                                   !.error = ChainIdUnavailable]
       ELSE sign' = [NoSign EXCEPT
                        !.op = "signUserOpHash", !.pc = "awaitAuthentication",
                        !.userOpHash = userOpHash,
                        !.chain = validator.account.client.chain,
                        !.ceremonies =
                            <<AssertionOptions(userOpHash,
                                               AllowCredentials(validator.webAuthnKey))>>]
    /\ UNCHANGED <<pc, params, locals, outcome, trace, validator, module>>

\* the error signMessageUsingWebAuthn throws on a credential, "" if none
\* (lines 72-85, in the order of the code)
SignatureError(cred) ==
    IF b64ToBytes(cred.response.authenticatorData) = InvalidCharacterError
    THEN AtobError
    ELSE IF atob(cred.response.clientDataJSON) = InvalidCharacterError
    THEN AtobError
    ELSE IF findQuoteIndices(atob(cred.response.clientDataJSON)).beforeType = -1
    THEN UnexpectedClientDataShape
    ELSE IF b64ToBytes(cred.response.signature) = InvalidCharacterError
    THEN AtobError
    ELSE IF ~parseAndNormalizeSig(
                uint8ArrayToHexString(b64ToBytes(cred.response.signature))).ok
    THEN MalformedSignature
    ELSE ""

\* the fields with one changed, each a way to get lines 97-104 wrong
EncodedSignatureWith(cred, chainId, change) ==
    LET clientDataJSON == atob(cred.response.clientDataJSON)
        sig == parseAndNormalizeSig(
                   uint8ArrayToHexString(b64ToBytes(cred.response.signature)))
    IN [authenticatorData |->
            hexToBytes(uint8ArrayToHexString(b64ToBytes(cred.response.authenticatorData))),
        clientDataJSON |-> clientDataJSON,
        responseTypeLocation |->
            IF change = "stubLocation" THEN 1
            ELSE findQuoteIndices(clientDataJSON).beforeType,
        r |-> IF change = "swapRS" THEN sig.s ELSE sig.r,
        s |-> IF change = "swapRS" THEN sig.r ELSE sig.s,
        usePrecompiled |->
            IF change = "neverPrecompiled" THEN FALSE
            ELSE isRIP7212SupportedNetwork(chainId)]

\* usePrecompiled left false, as in the stub signature
EncodedSignature_neverPrecompiled(cred, chainId) ==
    EncodedSignatureWith(cred, chainId, "neverPrecompiled")

\* r and s encoded in each other's place
EncodedSignature_swapRS(cred, chainId) ==
    EncodedSignatureWith(cred, chainId, "swapRS")

\* responseTypeLocation left 1, as in the stub signature
EncodedSignature_stubLocation(cred, chainId) ==
    EncodedSignatureWith(cred, chainId, "stubLocation")

\* lines 70-106: the six fields that are ABI-encoded, in their order
EncodedSignature(cred, chainId) ==
    LET authenticatorDataHex ==
            uint8ArrayToHexString(b64ToBytes(cred.response.authenticatorData))
        clientDataJSON == atob(cred.response.clientDataJSON)
        signatureHex == uint8ArrayToHexString(b64ToBytes(cred.response.signature))
        sig == parseAndNormalizeSig(signatureHex)
    IN [authenticatorData |-> hexToBytes(authenticatorDataHex),
        clientDataJSON |-> clientDataJSON,
        responseTypeLocation |-> findQuoteIndices(clientDataJSON).beforeType,
        r |-> sig.r,
        s |-> sig.s,
        usePrecompiled |-> isRIP7212SupportedNetwork(chainId)]

\* the client data an authenticator signs: the canonical form, the canonical
\* form with an origin whose base64url text holds a '-', the keys in the
\* other order, and a text with no "type"
ClientData(challenge, form) ==
    IF form = "canonical" THEN
        <<123>> \o TYPE_KEY
        \o <<119, 101, 98, 97, 117, 116, 104, 110, 46, 103, 101, 116, 34, 44>>
        \o CHALLENGE_KEY \o challenge
        \o <<34, 44, 34, 111, 114, 105, 103, 105, 110, 34, 58, 34, 111, 34, 125>>
    ELSE IF form = "tilde" THEN
        <<123>> \o TYPE_KEY
        \o <<119, 101, 98, 97, 117, 116, 104, 110, 46, 103, 101, 116, 34, 44>>
        \o CHALLENGE_KEY \o <<65, 81>>
        \o <<34, 44, 34, 111, 114, 105, 103, 105, 110, 34, 58, 34, 126, 34, 125>>
    ELSE IF form = "swapped" THEN
        <<123>> \o CHALLENGE_KEY \o challenge \o <<34, 44>> \o TYPE_KEY
        \o <<119, 101, 98, 97, 117, 116, 104, 110, 46, 103, 101, 116, 34, 125>>
    ELSE <<123>> \o CHALLENGE_KEY \o challenge \o <<34, 125>>

\* the signatures an authenticator returns: every s of the curve with r = 1,
\* the least and the greatest s with every other r, a wrong tag, a cut
AuthenticatorSignatures ==
    {[der |-> DerSignature(r, s), r |-> r, s |-> s] :
        r \in {1}, s \in 1..(CurveOrder - 1)}
    \cup {[der |-> DerSignature(r, s), r |-> r, s |-> s] :
             r \in 2..MaxCoord, s \in {1, CurveOrder - 1}}
    \cup {[der |-> <<49>> \o Tail(DerSignature(1, 1)), r |-> 0, s |-> 0],
          [der |-> SubSeq(DerSignature(1, 1), 1, 7), r |-> 0, s |-> 0]}

\* a credential of the authenticator: the fields of cred.response as
\* base64url, and beside them what it encoded (signed: r, s, clientData)
AssertionCredential(challenge, form, sig) ==
    [response |->
        [authenticatorData |-> base64FromUint8Array(<<73, 150, 13, 229>>),
         clientDataJSON |-> base64FromUint8Array(ClientData(challenge, form)),
         signature |-> base64FromUint8Array(sig.der)],
     signed |-> [r |-> sig.r, s |-> sig.s, clientData |-> ClientData(challenge, form)]]

\* what startAuthentication can end with for a challenge: it throws
\* (undefined here), or a credential
AuthenticationOutcomes(challenge) ==
    {Undefined}
    \cup {AssertionCredential(challenge, "canonical", sig) : sig \in AuthenticatorSignatures}
    \cup {AssertionCredential(challenge, form, [der |-> DerSignature(1, 1), r |-> 1, s |-> 1]) :
             form \in {"tilde", "swapped", "notype"}}

\* startAuthentication ends: it throws, or the credential is decoded and the
\* signature is encoded and returned
authenticationResult(cred) ==
    /\ sign.pc = "awaitAuthentication"
    /\ IF cred = Undefined
       THEN sign' = [sign EXCEPT !.pc = "done", !.error = CeremonyError]
       ELSE IF SignatureError(cred) # ""
       THEN sign' = [sign EXCEPT !.pc = "done", !.cred = cred,
                                 !.error = SignatureError(cred)]
       ELSE sign' = [sign EXCEPT !.pc = "done", !.cred = cred,
                                 !.result = EncodedSignature(cred, sign.chain.id)]
    /\ UNCHANGED <<pc, params, locals, outcome, trace, validator, module>>

\* the clientDataJSON of the stub signature (line 255)
STUB_CLIENT_DATA ==
    <<123, 34, 116, 121, 112, 101, 34, 58, 34, 119, 101, 98, 97, 117, 116, 104, 110, 46, 103, 101, 116, 34, 44, 34, 99, 104, 97, 108, 108, 101, 110, 103, 101, 34, 58, 34, 116, 98, 120, 88, 78, 70, 83, 57, 88, 95, 52, 66, 121, 114, 49, 99, 77, 119, 113, 75, 114, 73, 71, 66, 45, 95, 51, 48, 97, 48, 81, 104, 90, 54, 121, 55, 117, 99, 77, 48, 66, 79, 69, 34, 44, 34, 111, 114, 105, 103, 105, 110, 34, 58, 34, 104, 116, 116, 112, 58, 47, 47, 108, 111, 99, 97, 108, 104, 111, 115, 116, 58, 51, 48, 48, 48, 34, 44, 34, 99, 114, 111, 115, 115, 79, 114, 105, 103, 105, 110, 34, 58, 102, 97, 108, 115, 101, 44, 32, 34, 111, 116, 104, 101, 114, 95, 107, 101, 121, 115, 95, 99, 97, 110, 95, 98, 101, 95, 97, 100, 100, 101, 100, 95, 104, 101, 114, 101, 34, 58, 34, 100, 111, 32, 110, 111, 116, 32, 99, 111, 109, 112, 97, 114, 101, 32, 99, 108, 105, 101, 110, 116, 68, 97, 116, 97, 74, 83, 79, 78, 32, 97, 103, 97, 105, 110, 115, 116, 32, 97, 32, 116, 101, 109, 112, 108, 97, 116, 101, 46, 32, 83, 101, 101, 32, 104, 116, 116, 112, 115, 58, 47, 47, 103, 111, 111, 46, 103, 108, 47, 121, 97, 98, 80, 101, 120, 34, 125>>

\* the fixed signature of getStubSignature (lines 253-260); r and s are
\* 256-bit numbers, kept as their decimal text
StubSignature ==
    [authenticatorData |->
        hexToBytes(HEX_PREFIX \o
            <<52, 57, 57, 54, 48, 100, 101, 53, 56, 56, 48, 101, 56, 99, 54, 56, 55, 52, 51, 52, 49, 55, 48, 102, 54, 52, 55, 54, 54, 48, 53, 98, 56, 102, 101, 52, 97, 101, 98, 57, 97, 50, 56, 54, 51, 50, 99, 55, 57, 57, 53, 99, 102, 51, 98, 97, 56, 51, 49, 100, 57, 55, 54, 51, 49, 100, 48, 48, 48, 48, 48, 48, 48, 48>>),
     clientDataJSON |-> STUB_CLIENT_DATA,
     responseTypeLocation |-> 1,
     r |-> "44941127272049826721201904734628716258498742255959991581049806490182030242267",
     s |-> "9910254599581058084911561569808925251374718953855182016200087235935345969636",
     usePrecompiled |-> FALSE]

\* getStubSignature is called
getStubSignature ==
    /\ CanCall
    /\ sign' = [NoSign EXCEPT !.op = "getStubSignature", !.pc = "done",
                              !.result = StubSignature]
    /\ UNCHANGED <<pc, params, locals, outcome, trace, validator, module>>

(***************************************************************************)
(* The specification.                                                      *)
(***************************************************************************)
Init ==
    /\ pc = "idle"
    /\ params = [mode |-> NoMode, webAuthnKey |-> Undefined]
    /\ locals = NoLocals
    /\ outcome = NoOutcome
    /\ trace = <<>>
    /\ validator = Undefined
    /\ module = NoModule
    /\ sign = NoSign

Next ==
    \/ \E m \in {NoMode, WebAuthnMode_Register, WebAuthnMode_Login},
          k \in {Undefined} \cup WebAuthnKeys :
          toWebAuthnKey([mode |-> m, webAuthnKey |-> k])
    \/ \E resp \in Responses(OptionsBodies) : optionsResponse(resp)
    \/ \E cred \in CeremonyOutcomes(Mode(params), locals.options) : ceremonyResult(cred)
    \/ \E resp \in Responses(IF Mode(params) = WebAuthnMode_Login
                             THEN LoginVerifyBodies ELSE RegisterVerifyBodies) :
          verifyResponse(resp)
    \/ importKeyResult
    \/ \E k \in WebAuthnKeys, acc \in Accounts : toPasskeyValidator(k, acc)
    \/ \E h \in UserOpHashes : signUserOpHash(h)
    \/ /\ sign.pc = "awaitAuthentication"
       /\ \E cred \in AuthenticationOutcomes(sign.ceremonies[1].challenge) :
             authenticationResult(cred)
    \/ getStubSignature

Spec == Init /\ [][Next]_vars

(***************************************************************************)
(* The claims.                                                             *)
(***************************************************************************)
\* the toWebAuthnKey call made a step of the key derivation: the hash of the
\* authenticator id, the SPKI import, the raw export
DerivationReached ==
    \/ \E i \in 1..Len(trace) : trace[i].op \in {"keccak256", "importKey", "exportKey"}
    \/ locals.authenticatorIdHash # Undefined

\* the account client of the validator has no chain set
NoChainSet ==
    IF validator.account.client = Undefined THEN TRUE
    ELSE validator.account.client.chain = Undefined

\* C1: a signUserOpHash call made while the account client has no chain
\* fails with ChainIdUnavailable, and startAuthentication is not invoked in it.
C1_NoChainFailsBeforeCeremony ==
    (sign.op = "signUserOpHash" /\ NoChainSet) =>
        /\ sign.pc = "done"
        /\ sign.error = ChainIdUnavailable
        /\ sign.result = Undefined
        /\ sign.ceremonies = <<>>

\* C1 witness: such a call was made on a client that exists and has no chain
C1_Witness ==
    /\ sign.op = "signUserOpHash"
    /\ validator.account.client # Undefined
    /\ NoChainSet
    /\ sign.error = ChainIdUnavailable

\* the Register flow got a /register/verify body with verified = false
RegisterVerifiedFalse ==
    /\ params.webAuthnKey = Undefined
    /\ Mode(params) = WebAuthnMode_Register
    /\ locals.verifyResult # Undefined
    /\ locals.verifyResult.verified = Bool(FALSE)

\* C2: in the Register flow, a /register/verify response with
\* verified = false makes the call fail with RegistrationNotVerified, and
\* neither the public-key derivation nor the hash is reached.
C2_RegistrationNotVerified ==
    RegisterVerifiedFalse =>
        /\ pc = "thrown"
        /\ outcome.error = RegistrationNotVerified
        /\ outcome.value = Undefined
        /\ ~DerivationReached

\* C2 witness: the response came for a credential that has a key and an id
C2_Witness ==
    /\ RegisterVerifiedFalse
    /\ pc = "thrown"
    /\ ~Falsy(locals.cred.response.publicKey)
    /\ ~Falsy(locals.authenticatorId)

\* the Login flow got a /login/verify body whose verification is not verified
\* (verified false, or left out)
LoginVerifiedFalse ==
    /\ params.webAuthnKey = Undefined
    /\ Mode(params) = WebAuthnMode_Login
    /\ locals.verifyResult # Undefined
    /\ locals.verifyResult.verification # Undefined
    /\ locals.verifyResult.verification.verified # Bool(TRUE)

\* C3: in the Login flow, a /login/verify response that reports the
\* verification failed makes the call fail with LoginNotVerified, and no
\* WebAuthnKey is derived or returned.
C3_LoginNotVerified ==
    LoginVerifiedFalse =>
        /\ pc = "thrown"
        /\ outcome.error = LoginNotVerified
        /\ outcome.value = Undefined
        /\ ~DerivationReached

\* C3 witness: verified was false, and the response carried a public key all
\* the same
C3_Witness ==
    /\ LoginVerifiedFalse
    /\ locals.verifyResult.verification.verified = Bool(FALSE)
    /\ pc = "thrown"
    /\ ~Falsy(locals.verifyResult.pubkey)
    /\ ~Falsy(locals.authenticatorId)

\* C4: with a webAuthnKey supplied, in either mode, toWebAuthnKey returns
\* that key unchanged and makes no passkey-server request and no ceremony.
C4_SuppliedKeyShortCircuit ==
    (pc # "idle" /\ params.webAuthnKey # Undefined) =>
        /\ pc = "returned"
        /\ outcome.value = params.webAuthnKey
        /\ outcome.error = ""
        /\ trace = <<>>
        /\ locals = NoLocals

\* C4 witness: a key was supplied to a Register call, which returned
C4_Witness ==
    /\ pc = "returned"
    /\ params.webAuthnKey # Undefined
    /\ Mode(params) = WebAuthnMode_Register

\* the keccak-256 digest of the bytes an authenticator id decodes to
DigestOfDecodedId(authenticatorId) == [keccak256 |-> b64ToBytes(authenticatorId)]

\* the invariant of a WebAuthnKey
HashMatchesId(key) ==
    key.authenticatorIdHash = DigestOfDecodedId(key.authenticatorId)

\* C5, as claimed: every WebAuthnKey toWebAuthnKey returns, for any mode and
\* any inputs, has authenticatorIdHash = keccak256(decoded authenticatorId).
C5_Original_EveryReturnedKey ==
    pc = "returned" => HashMatchesId(outcome.value)

\* C5, amended: every WebAuthnKey that toWebAuthnKey derives (no webAuthnKey
\* supplied) has that hash, in either mode; a supplied key is returned with
\* the hash it came with, so it has it only if it had it.
C5_DerivedKeyHash ==
    pc = "returned" =>
        IF params.webAuthnKey = Undefined
        THEN HashMatchesId(outcome.value)
        ELSE HashMatchesId(outcome.value) <=> HashMatchesId(params.webAuthnKey)

\* C5 witness: the id "AQIDBA" was hashed as the bytes 01 02 03 04
C5_Witness ==
    /\ pc = "returned"
    /\ params.webAuthnKey = Undefined
    /\ outcome.value.authenticatorId = <<65, 81, 73, 68, 66, 65>>
    /\ outcome.value.authenticatorIdHash = [keccak256 |-> <<1, 2, 3, 4>>]

\* C6: the top-level initData and moduleInitData.initData of the module are
\* the same bytes, abi.encode((pubX, pubY), authenticatorIdHash) of the key
\* given, and deInitData is empty bytes.
C6_InitDataIdentical ==
    module # NoModule =>
        /\ module.initData = module.moduleInitData.initData
        /\ module.initData = <<[uint256 |-> validator.webAuthnKey.pubX],
                               [uint256 |-> validator.webAuthnKey.pubY],
                               [bytes32 |-> validator.webAuthnKey.authenticatorIdHash]>>
        /\ hexToBytes(module.deInitData) = <<>>

\* C6 witness: a module of a key whose coordinates differ
C6_Witness ==
    /\ module # NoModule
    /\ validator.webAuthnKey.pubX # validator.webAuthnKey.pubY

\* signUserOpHash returned a signature
Signed == sign.op = "signUserOpHash" /\ sign.pc = "done" /\ sign.result # Undefined

\* C7: in a signature signUserOpHash returns, usePrecompiled is true exactly
\* when the chain id of the account client is in the allow-list.
C7_UsePrecompiledIffListed ==
    Signed =>
        (sign.result.usePrecompiled
            <=> validator.account.client.chain.id \in RIP7212_CHAINS)

\* C7 witness: a signature made on a chain of the list
C7_Witness ==
    /\ Signed
    /\ sign.result.usePrecompiled
    /\ validator.account.client.chain.id \in RIP7212_CHAINS

\* C8: the s encoded is the authenticator's s when s <= n / 2 and n - s when
\* s > n / 2, hence at most n / 2, and r is the authenticator's r.
C8_LowS ==
    Signed =>
        /\ sign.result.r = sign.cred.signed.r
        /\ sign.result.s = IF sign.cred.signed.s <= CurveOrder \div 2
                           THEN sign.cred.signed.s
                           ELSE CurveOrder - sign.cred.signed.s
        /\ sign.result.s <= CurveOrder \div 2

\* C8 witness: a high s, whose DER integer has the leading 0x00, was replaced
C8_Witness ==
    /\ Signed
    /\ sign.cred.signed.s >= 128
    /\ sign.result.s = CurveOrder - sign.cred.signed.s
    /\ sign.result.s # sign.cred.signed.s

\* the text {"type":"webauthn.get","challenge":"
CANONICAL_HEAD ==
    <<123>> \o TYPE_KEY
    \o <<119, 101, 98, 97, 117, 116, 104, 110, 46, 103, 101, 116, 34, 44>>
    \o CHALLENGE_KEY

SomeRequestFailed ==
    \E i \in 1..Len(trace) : trace[i].op = "response" /\ trace[i].arg # "ok"

\* C10, as claimed: a failure of any passkey-server request propagates as an
\* error, so the call does not return a WebAuthnKey.
C10_FailedRequestReturnsNoKey ==
    SomeRequestFailed => (pc # "returned" /\ outcome.value = Undefined)

\* a value that is not there: undefined, or the empty string
Absent(v) == v = Undefined \/ v = Str(<<>>)

\* the call ran a flow and its verify body reports a verified credential
VerificationSucceeded ==
    /\ params.webAuthnKey = Undefined
    /\ locals.verifyResult # Undefined
    /\ IF Mode(params) = WebAuthnMode_Login
       THEN /\ locals.verifyResult.verification # Undefined
            /\ locals.verifyResult.verification.verified = Bool(TRUE)
       ELSE locals.verifyResult.verified = Bool(TRUE)

\* the public key the flow obtained: from the /login/verify body, or from
\* the registration credential
ObtainedPubKey ==
    IF Mode(params) = WebAuthnMode_Login
    THEN locals.verifyResult.pubkey
    ELSE locals.cred.response.publicKey

\* a WebAuthnKey with its four fields
FullKey(key) ==
    /\ DOMAIN key = {"pubX", "pubY", "authenticatorId", "authenticatorIdHash"}
    /\ key.pubX \in Nat
    /\ key.pubY \in Nat
    /\ key.authenticatorId \in Seq(0..255)
    /\ DOMAIN key.authenticatorIdHash = {"keccak256"}

\* the call failed with this error, before any hashing or key derivation
FailedBeforeDerivation(error) ==
    /\ pc = "thrown"
    /\ outcome.error = error
    /\ outcome.value = Undefined
    /\ ~DerivationReached

\* C11: toWebAuthnKey never returns a partial key. In either flow, once the
\* verification succeeded, a missing public key makes the call fail with
\* MissingPublicKey and, the public key present, a missing authenticator id
\* makes it fail with MissingAuthenticatorId, both before any hashing or key
\* derivation; every returned key carries pubX, pubY, authenticatorId and
\* authenticatorIdHash, and a derived one has a non-empty authenticatorId.
C11_NoPartialKey ==
    /\ VerificationSucceeded =>
          IF Absent(ObtainedPubKey)
          THEN FailedBeforeDerivation(MissingPublicKey)
          ELSE Absent(locals.cred.id) =>
                  FailedBeforeDerivation(MissingAuthenticatorId)
    /\ pc = "returned" =>
          /\ FullKey(outcome.value)
          /\ params.webAuthnKey = Undefined => outcome.value.authenticatorId # <<>>

\* C11 witness: a verified registration whose credential has neither a public
\* key nor an id failed with MissingPublicKey
C11_Witness ==
    /\ VerificationSucceeded
    /\ Mode(params) = WebAuthnMode_Register
    /\ ObtainedPubKey = Undefined
    /\ locals.cred.id = Str(<<>>)
    /\ outcome.error = MissingPublicKey

\* the options of a ceremony allow one public-key credential, of this id
RestrictedTo(options, authenticatorId) ==
    /\ Len(options.allowCredentials) = 1
    /\ options.allowCredentials[1].id = authenticatorId
    /\ options.allowCredentials[1].type = "public-key"

\* the challenge is the base64url text (no '+', '/', '=') of the bytes that
\* the hex digits of the hash denote
ChallengeIsOf(challenge, userOpHash) ==
    /\ \A i \in 1..Len(challenge) : challenge[i] \notin {43, 47, 61}
    /\ b64ToBytes(challenge) = hexToBytes(userOpHash)

\* C12: every authentication ceremony started by signUserOpHash is restricted
\* to the registered authenticator: its allowCredentials list is exactly the
\* one public-key credential whose id is the authenticatorId of the
\* webAuthnKey given to toPasskeyValidator, and its challenge is derived only
\* from the userOpHash being signed. A call starts one ceremony at most, and
\* no other callback starts one.
C12_CeremonyRestricted ==
    /\ Len(sign.ceremonies) <= 1
    /\ sign.ceremonies # <<>> => sign.op = "signUserOpHash"
    /\ \A i \in 1..Len(sign.ceremonies) :
          /\ RestrictedTo(sign.ceremonies[i], validator.webAuthnKey.authenticatorId)
          /\ ChallengeIsOf(sign.ceremonies[i].challenge, sign.userOpHash)

\* C12 witness: the hash 0xff is being signed with the key whose
\* authenticatorId is "_w", and the ceremony carries the challenge "_w"
C12_Witness ==
    /\ sign.op = "signUserOpHash"
    /\ sign.pc = "awaitAuthentication"
    /\ sign.userOpHash = uint8ArrayToHexString(<<255>>)
    /\ validator.webAuthnKey.authenticatorId = <<95, 119>>
    /\ Len(sign.ceremonies) = 1
    /\ sign.ceremonies[1].challenge = <<95, 119>>

\* what a run of a mode calls, in the order of the claim: the options
\* request, the platform ceremony, the verify request, the key derivation
ExpectedCalls(m) ==
    IF m = WebAuthnMode_Login
    THEN <<[op |-> "fetch", arg |-> "/login/options"],
           [op |-> "startAuthentication", arg |-> ""],
           [op |-> "fetch", arg |-> "/login/verify"],
           [op |-> "keccak256", arg |-> ""],
           [op |-> "importKey", arg |-> ""],
           [op |-> "exportKey", arg |-> ""]>>
    ELSE <<[op |-> "fetch", arg |-> "/register/options"],
           [op |-> "startRegistration", arg |-> ""],
           [op |-> "fetch", arg |-> "/register/verify"],
           [op |-> "keccak256", arg |-> ""],
           [op |-> "importKey", arg |-> ""],
           [op |-> "exportKey", arg |-> ""]>>

IsCall(entry) == entry.op # "response"
IsFetch(entry) == entry.op = "fetch"
IsCeremony(entry) == entry.op \in {"startRegistration", "startAuthentication"}

\* the calls the run made so far, without the responses it got
CallsMade == SelectSeq(trace, IsCall)

\* the steps were started in the fixed order, each once at most, and the
\* ceremony is the one of the selected mode
C13_FixedOrderNoRetry ==
    LET expected == ExpectedCalls(Mode(params))
    IN /\ Len(CallsMade) <= Len(expected)
       /\ CallsMade = SubSeq(expected, 1, Len(CallsMade))

\* a run that returned a derived key made two passkey-server requests, one
\* ceremony, and the whole derivation
C13_SuccessfulRunCounts ==
    (pc = "returned" /\ params.webAuthnKey = Undefined) =>
        /\ Len(SelectSeq(trace, IsFetch)) = 2
        /\ Len(SelectSeq(trace, IsCeremony)) = 1
        /\ CallsMade = ExpectedCalls(Mode(params))

\* a request that failed (a network error, a non-2xx response, a payload of
\* another shape) is the last thing of the run: no step starts after it
C13_NoStepAfterFailedRequest ==
    \A i \in 1..Len(trace) :
        (trace[i].op = "response" /\ trace[i].arg # "ok") => i = Len(trace)

\* a ceremony that failed is the last thing of the run
C13_NoStepAfterFailedCeremony ==
    (pc = "thrown" /\ outcome.error = CeremonyError) =>
        IsCeremony(trace[Len(trace)])

\* C13, as claimed: in every run of toWebAuthnKey without a supplied key the
\* steps happen in the fixed order options request -> platform ceremony ->
\* verify request -> key derivation, each step is executed once at most, a
\* step starts only after the previous one completed without error, and a
\* successful run makes exactly two passkey-server requests and exactly one
\* ceremony of the selected mode.
C13_StepsInOrderAfterSuccess ==
    params.webAuthnKey = Undefined =>
        /\ C13_FixedOrderNoRetry
        /\ C13_SuccessfulRunCounts
        /\ C13_NoStepAfterFailedRequest
        /\ C13_NoStepAfterFailedCeremony

====
